---- MODULE Spec2Model ----
(***************************************************************************)
(* Service B of app-ecs (src/app.py): a Flask application with one         *)
(* Flask-SQLAlchemy model, UserInput, a before-first-request hook that     *)
(* creates the tables, the form route "/" and the liveness route           *)
(* "/health".                                                              *)
(*                                                                         *)
(* The module is loaded once (LoadModule); afterwards worker threads of    *)
(* the one process handle requests.  A request is handled in the steps at  *)
(* which it touches state other threads can see: the before-first-request  *)
(* lock and flag, and the PostgreSQL database named by DATABASE_URL.       *)
(* The database is an external collaborator: it is reachable or not        *)
(* (dbUp), a transaction commits atomically or not at all, ids come from   *)
(* the sequence of the SERIAL primary key, and a VARCHAR(n) column takes   *)
(* a longer value only if the excess is spaces, which it cuts off.         *)
(*                                                                         *)
(* A string is abstracted to [text, len, pad]: its content up to trailing  *)
(* spaces, its length and the number of trailing spaces.                   *)
(***************************************************************************)
EXTENDS Integers, Sequences, FiniteSets, TLC

\* ------------------------------------------------------------------ bounds
MaxRequests == 2          \* requests the process handles in one behaviour

Threads == {"t1", "t2"}   \* worker threads of the serving process

\* ------------------------------------------------------- program constants
NameLimit == 80           \* db.String(80)
EmailLimit == 120         \* db.String(120)

\* ------------------------------------------------------------- environment
Required == {"DB_USER", "DB_PASS", "DB_HOST", "DB_NAME"}
EnvVars == Required \cup {"DB_PORT"}
Unset == "<unset>"        \* os.environ.get(...) returning None

\* The environments tried: each required variable unset, empty or set;
\* DB_PORT unset or set.
Environments ==
    { e \in [EnvVars -> {Unset, "", "v"}] : e["DB_PORT"] # "" }

\* os.environ.get(key, default)
environ_get(e, key, default) == IF e[key] = Unset THEN default ELSE e[key]

\* a Python value is truthy: None and "" are not
Truthy(v) == v # Unset /\ v # ""

config_any(e) == \E k \in Required : Truthy(environ_get(e, k, Unset))

\* all([DB_USER, DB_PASS, DB_HOST, DB_NAME])
config_all(e) == \A k \in Required : Truthy(environ_get(e, k, Unset))

\* ------------------------------------------------------------------ strings
Str(text, len, pad) == [text |-> text, len |-> len, pad |-> pad]

Names == { Str("alice", 5, 0), Str("bob", NameLimit + 2, 2),
           Str("carol", NameLimit + 2, 1) }
Emails == { Str("a@x", EmailLimit, 0), Str("b@x", EmailLimit + 1, 1),
            Str("c@x", EmailLimit + 1, 0) }

\* request.form of a POST: any subset of the two fields may be sent
Forms ==
    UNION { [D -> Names \cup Emails] : D \in SUBSET {"name", "email"} }

WellFormed(f) ==
    /\ ("name" \in DOMAIN f => f["name"] \in Names)
    /\ ("email" \in DOMAIN f => f["email"] \in Emails)

NoForm == << >>

Requests ==
    { [method |-> "GET", path |-> "/", form |-> NoForm],
      [method |-> "GET", path |-> "/health", form |-> NoForm] }
    \cup { [method |-> "POST", path |-> "/", form |-> f] :
             f \in { g \in Forms : WellFormed(g) } }

\* -------------------------------------------------------------------- state
VARIABLES
    env,                 \* os.environ of the process
    proc,                \* "loading", "serving" or "crashed" (import raised)
    url_map,             \* rules registered with @app.route
    db_bound,            \* db = SQLAlchemy(app) and the model exist
    got_first_request,   \* app._got_first_request
    lock,                \* holder of app._before_request_lock, or NoThread
    dbUp,                \* the database accepts connections
    tableExists,         \* the user_input table exists in the database
    table,               \* committed rows of user_input
    seq,                 \* last value of the id column's sequence
    pc,                  \* per thread: where it is in handling its request
    req,                 \* per thread: the request being (or last) handled
    resp,                \* per thread: the response of the last request
    session,             \* per scope: the db.session of that scope
    nreq                 \* requests received so far

vars == << env, proc, url_map, db_bound, got_first_request, lock, dbUp,
           tableExists, table, seq, pc, req, resp, session, nreq >>

NoThread == "none"
NoRequest == [id |-> 0, method |-> "", path |-> "", form |-> NoForm, floor |-> 0]
NoResponse == [status |-> 0, body |-> "", exc |-> "", at |-> ""]
EmptySession == [new |-> << >>, tx |-> {}]

\* status and body of a response; for an error, the exception behind it and
\* the function of app.py it was raised in
Response(status, body, exc, at) ==
    [status |-> status, body |-> body, exc |-> exc, at |-> at]

\* a row the table held before this process started
OldRow == [id |-> 1, name |-> Str("zed", 3, 0), email |-> Str("z@x", 3, 0),
           req |-> 0]

Max(S) == IF S = {} THEN 0 ELSE CHOOSE m \in S : \A x \in S : x <= m
Ids(rows) == { r.id : r \in rows }

Init ==
    /\ env \in Environments
    /\ proc = "loading"
    /\ url_map = {}
    /\ db_bound = FALSE
    /\ got_first_request = FALSE
    /\ lock = NoThread
    /\ dbUp \in BOOLEAN
    /\ \/ tableExists = FALSE /\ table = {} /\ seq = 0
       \/ tableExists = TRUE /\ table = {OldRow} /\ seq = 1
    /\ pc = [t \in Threads |-> "idle"]
    /\ req = [t \in Threads |-> NoRequest]
    /\ resp = [t \in Threads |-> NoResponse]
    /\ session = [t \in Threads |-> EmptySession]
    /\ nreq = 0

\* ------------------------------------------------------------- module load
\* Lines 5-43 run once when the module is imported.  The check of line 13
\* raises before db, the model and the routes exist.
LoadModule ==
    /\ proc = "loading"
    /\ IF ~config_all(env)
         THEN /\ proc' = "crashed"
              /\ UNCHANGED << url_map, db_bound >>
         ELSE /\ proc' = "serving"
              /\ db_bound' = TRUE
              /\ url_map' = { <<"GET", "/">>, <<"POST", "/">>,
                              <<"GET", "/health">> }
    /\ UNCHANGED << env, got_first_request, lock, dbUp, tableExists, table,
                    seq, pc, req, resp, session, nreq >>

\* ---------------------------------------------------------------- database
\* The database becomes unreachable, or reachable again.
DbFails ==
    /\ dbUp
    /\ dbUp' = FALSE
    /\ UNCHANGED << env, proc, url_map, db_bound, got_first_request, lock,
                    tableExists, table, seq, pc, req, resp, session, nreq >>

DbRecovers ==
    /\ ~dbUp
    /\ dbUp' = TRUE
    /\ UNCHANGED << env, proc, url_map, db_bound, got_first_request, lock,
                    tableExists, table, seq, pc, req, resp, session, nreq >>

\* VARCHAR(n) on assignment: a value that fits is stored as it is; a longer
\* one is cut to n if the excess is all spaces and is an error otherwise.
Fits(s, n) == s.len - s.pad <= n
Stored(s, n) ==
    IF s.len <= n THEN s ELSE Str(s.text, n, s.pad - (s.len - n))

Unchecked(o) == TRUE

\* the columns of UserInput: name String(80), email String(120)
Accepts(o) == Fits(o.name, NameLimit) /\ Fits(o.email, EmailLimit)

StoredRow(o, id) ==
    [id |-> id, name |-> Stored(o.name, NameLimit),
     email |-> Stored(o.email, EmailLimit), req |-> o.req]

drop_and_create(rows) == {}

\* db.create_all(): CREATE TABLE only for tables that do not exist yet;
\* the rows of an existing table stay.
create_all(rows) == rows

max_plus_one(rows, s) == Max(Ids(rows)) + 1

\* nextval of the sequence behind id (primary key, no value supplied)
nextval(rows, s) == s + 1

\* ----------------------------------------------------------------- Flask
no_hooks == {}

\* @app.before_first_request registers create_tables
before_first_request_funcs == {"create_tables"}

shared_scope(t) == "t1"

\* db.session is a scoped session: each thread handling a request resolves
\* it to a session of its own
scopefunc(t) == t

keep_session(s) == s

\* the teardown Flask-SQLAlchemy registers when db = SQLAlchemy(app) is
\* built: db.session.remove() at the end of every request, which rolls
\* back and discards whatever the session still holds
shutdown_session(s) == EmptySession

UserInput_swapped(name, email, r) == [name |-> email, email |-> name, req |-> r]

\* UserInput(name=name, email=email); req is the request that built it
UserInput(name, email, r) == [name |-> name, email |-> email, req |-> r]

\* The request of thread t ends with response r, its session left as s:
\* the response is sent and the application context is torn down.
Finish(t, r, s) ==
    /\ pc' = [pc EXCEPT ![t] = "done"]
    /\ resp' = [resp EXCEPT ![t] = r]
    /\ session' = [session EXCEPT ![scopefunc(t)] = shutdown_session(s)]

InternalServerError(exc, at) ==
    Response(500, "Internal Server Error", exc, at)

\* A worker thread takes the next request.  Flask first looks at
\* _got_first_request: once it is set the view runs, before that the
\* thread goes for the before-first-request lock.
Receive(t, r) ==
    /\ proc = "serving"
    /\ pc[t] \in {"idle", "done"}
    /\ nreq < MaxRequests
    /\ <<r.method, r.path>> \in url_map
    /\ nreq' = nreq + 1
    /\ req' = [req EXCEPT ![t] =
                 [id |-> nreq + 1, method |-> r.method, path |-> r.path,
                  form |-> r.form, floor |-> Max(Ids(table))]]
    /\ resp' = [resp EXCEPT ![t] = NoResponse]
    /\ pc' = [pc EXCEPT ![t] = IF got_first_request THEN "view" ELSE "wait"]
    /\ UNCHANGED << env, proc, url_map, db_bound, got_first_request, lock,
                    dbUp, tableExists, table, seq, session >>

AcquireLock(t) ==
    /\ pc[t] = "wait"
    /\ lock = NoThread
    /\ lock' = t
    /\ pc' = [pc EXCEPT ![t] = "hook"]
    /\ UNCHANGED << env, proc, url_map, db_bound, got_first_request, dbUp,
                    tableExists, table, seq, req, resp, session, nreq >>

\* Under the lock: if another thread ran the hooks meanwhile, go on to the
\* view; else run create_tables and set _got_first_request after it
\* returned.  If db.create_all() raises, the flag stays unset and the
\* request ends with 500 whatever its route.
RunHook(t) ==
    /\ pc[t] = "hook"
    /\ lock = t
    /\ lock' = NoThread
    /\ IF got_first_request \/ "create_tables" \notin before_first_request_funcs
         THEN /\ got_first_request' = TRUE
              /\ pc' = [pc EXCEPT ![t] = "view"]
              /\ UNCHANGED << tableExists, table, resp, session >>
         ELSE IF dbUp
         THEN /\ tableExists' = TRUE
              /\ table' = create_all(table)
              /\ got_first_request' = TRUE
              /\ pc' = [pc EXCEPT ![t] = "view"]
              /\ UNCHANGED << resp, session >>
         ELSE /\ Finish(t, InternalServerError("OperationalError",
                                               "create_tables"),
                        session[scopefunc(t)])
              /\ UNCHANGED << got_first_request, tableExists, table >>
    /\ UNCHANGED << env, proc, url_map, db_bound, dbUp, seq, req, nreq >>

\* The view function of the matched rule: health, or index up to and
\* including db.session.add.
View(t) ==
    /\ pc[t] = "view"
    /\ LET r == req[t]
           k == scopefunc(t)
       IN  IF r.path = "/health"
             THEN Finish(t, Response(200, "OK", "", ""), session[k])
           ELSE IF r.method # "POST"
             THEN Finish(t, Response(200, "form.html", "", ""), session[k])
           ELSE IF "name" \notin DOMAIN r.form \/ "email" \notin DOMAIN r.form
             THEN Finish(t, Response(400, "Bad Request", "BadRequestKeyError",
                                     "index"), session[k])
           ELSE /\ session' = [session EXCEPT ![k].new =
                      Append(@, UserInput(r.form["name"], r.form["email"], r.id))]
                /\ pc' = [pc EXCEPT ![t] = "flush"]
                /\ UNCHANGED resp
    /\ UNCHANGED << env, proc, url_map, db_bound, got_first_request, lock,
                    dbUp, tableExists, table, seq, req, nreq >>

\* db.session.commit(), first half: the pending objects are INSERTed in the
\* session's transaction, each taking its id from the sequence.
Flush(t) ==
    /\ pc[t] = "flush"
    /\ LET k == scopefunc(t)
           s == session[k]
           n == Len(s.new)
           rolledBack == [s EXCEPT !.tx = {}]
       IN  IF ~dbUp
             THEN /\ Finish(t, InternalServerError("OperationalError", "index"),
                            rolledBack)
                  /\ UNCHANGED seq
           ELSE IF ~tableExists
             THEN /\ Finish(t, InternalServerError("ProgrammingError", "index"),
                            rolledBack)
                  /\ UNCHANGED seq
           ELSE IF \E i \in 1..n : ~Accepts(s.new[i])
             THEN /\ Finish(t, InternalServerError("DataError", "index"),
                            rolledBack)
                  /\ UNCHANGED seq
           ELSE /\ session' = [session EXCEPT ![k] =
                      [new |-> << >>,
                       tx |-> s.tx \cup { StoredRow(s.new[i],
                                             nextval(table, seq) + i - 1) :
                                          i \in 1..n }]]
                /\ seq' = seq + n
                /\ pc' = [pc EXCEPT ![t] = "commit"]
                /\ UNCHANGED resp
    /\ UNCHANGED << env, proc, url_map, db_bound, got_first_request, lock,
                    dbUp, tableExists, table, req, nreq >>

\* db.session.commit(), second half: COMMIT, then the view returns.
Commit(t) ==
    /\ pc[t] = "commit"
    /\ LET k == scopefunc(t)
           s == session[k]
       IN  IF dbUp
             THEN /\ table' = table \cup s.tx
                  /\ Finish(t, Response(200, "Submitted successfully!", "", ""),
                            [s EXCEPT !.tx = {}])
             ELSE /\ Finish(t, InternalServerError("OperationalError", "index"),
                            [s EXCEPT !.tx = {}])
                  /\ UNCHANGED table
    /\ UNCHANGED << env, proc, url_map, db_bound, got_first_request, lock,
                    dbUp, tableExists, seq, req, nreq >>

Next ==
    \/ LoadModule
    \/ DbFails
    \/ DbRecovers
    \/ \E t \in Threads, r \in Requests : Receive(t, r)
    \/ \E t \in Threads : AcquireLock(t)
    \/ \E t \in Threads : RunHook(t)
    \/ \E t \in Threads : View(t)
    \/ \E t \in Threads : Flush(t)
    \/ \E t \in Threads : Commit(t)

Spec == Init /\ [][Next]_vars

\* ============================================================== properties
\* Helpers of the properties.  They read the state directly and use none of
\* the operators above that model a step of the code.
Answered(t) == pc[t] = "done"
IsPost(t) == req[t].method = "POST" /\ req[t].path = "/"
BothFields(t) == {"name", "email"} \subseteq DOMAIN req[t].form
FullPost(t) == IsPost(t) /\ BothFields(t)
RowsOf(t) == { r \in table : r.req = req[t].id }
Cut(s, n) == IF s.len > n THEN [s EXCEPT !.len = n, !.pad = s.pad - (s.len - n)] ELSE s
TooLong(s, n) == s.len - s.pad > n
Overlong(t) ==
    \/ TooLong(req[t].form["name"], NameLimit)
    \/ TooLong(req[t].form["email"], EmailLimit)
InFlight == UNION { session[t].tx : t \in Threads }

\* ---------------------------------------------------------------------- C1
\* C1: every GET /health that has been answered was answered 200 "OK",
\* whatever the state of the database and also when it was the first
\* request of the process.
C1_HealthAlwaysOK ==
    \A t \in Threads :
        Answered(t) /\ req[t].path = "/health"
            => resp[t].status = 200 /\ resp[t].body = "OK"

\* ---------------------------------------------------------------------- C2
\* C2: every answered POST / that lacked name or email was answered 400 and
\* left no row of its own in the table and nothing in its session.
C2_MissingField400 ==
    \A t \in Threads :
        Answered(t) /\ IsPost(t) /\ ~BothFields(t)
            => /\ resp[t].status = 400
               /\ RowsOf(t) = {}
               /\ session[t] = EmptySession

\* ---------------------------------------------------------------------- C3
\* C3 as stated: every answered POST / with both fields was answered 200
\* "Submitted successfully!" and has exactly one row, carrying exactly the
\* submitted name and email.  Requests ended by create_tables before index
\* ran are left aside here (they are the case of C1).
C3_PostAlwaysSucceeds ==
    \A t \in Threads :
        Answered(t) /\ FullPost(t) /\ resp[t].at # "create_tables"
            => /\ resp[t].status = 200
               /\ resp[t].body = "Submitted successfully!"
               /\ \E r \in table :
                     /\ RowsOf(t) = {r}
                     /\ r.name = req[t].form["name"]
                     /\ r.email = req[t].form["email"]

\* C3 as amended: an answered POST / with both fields was answered either
\* 200 "Submitted successfully!", and then has exactly one row, carrying
\* the submitted name and email (each cut to its column's limit where only
\* trailing spaces exceed it, so exactly the submitted values when they are
\* within the limits); or 500, and then has no row, the cause being the
\* database (unreachable at table creation, insert or commit) or a
\* value too long for its column.
C3_PostSucceedsOrFails ==
    \A t \in Threads :
        Answered(t) /\ FullPost(t)
            => \/ /\ resp[t].status = 200
                  /\ resp[t].body = "Submitted successfully!"
                  /\ ~Overlong(t)
                  /\ \E r \in table :
                        /\ RowsOf(t) = {r}
                        /\ r.name = Cut(req[t].form["name"], NameLimit)
                        /\ r.email = Cut(req[t].form["email"], EmailLimit)
               \/ /\ resp[t].status = 500
                  /\ RowsOf(t) = {}
                  /\ \/ resp[t].exc = "OperationalError"
                     \/ resp[t].exc = "DataError" /\ Overlong(t)

C3_Witness ==
    \E t \in Threads :
        /\ Answered(t) /\ FullPost(t)
        /\ resp[t].status = 200
        /\ \E r \in table :
              /\ RowsOf(t) = {r}
              /\ r.name = req[t].form["name"]
              /\ r.email = req[t].form["email"]

\* ---------------------------------------------------------------------- C4
\* C4: with DB_USER, DB_PASS, DB_HOST or DB_NAME unset, the process never
\* serves: no db handle, no route, no request taken; and when the four are
\* set the load does not fail, whether or not DB_PORT is set.
C4_FailFast ==
    /\ (\E k \in Required : env[k] = Unset)
          => /\ proc # "serving"
             /\ ~db_bound
             /\ url_map = {}
             /\ nreq = 0
             /\ \A t \in Threads : pc[t] = "idle"
    /\ (\A k \in Required : env[k] = "v") => proc # "crashed"

C4_Witness ==
    /\ proc = "crashed"
    /\ env["DB_PASS"] = Unset
    /\ \A k \in Required \ {"DB_PASS"} : env[k] = "v"

\* ---------------------------------------------------------------------- C5
\* C5: a thread is in a view, or in the insert or the commit of index, only
\* after create_tables has completed and the table exists; and the step
\* that completes create_tables leaves an existing table and its rows as
\* they were.
C5_TableBeforeInsert ==
    /\ [](\A t \in Threads :
            pc[t] \in {"view", "flush", "commit"}
                => got_first_request /\ tableExists)
    /\ [][ got_first_request' # got_first_request
              => /\ tableExists'
                 /\ (tableExists => table' = table) ]_vars

C5_Witness ==
    \E t, u \in Threads :
        /\ t # u
        /\ pc[t] = "flush"
        /\ pc[u] \in {"view", "flush", "commit"}
        /\ req[t].id = 1 /\ req[u].id = 2
        /\ tableExists
        /\ table = {}

\* ---------------------------------------------------------------------- C6
\* C6: an answered POST / whose insert or commit failed was answered 500,
\* has no row in the table and left nothing in its session to be inserted
\* later; and a row enters the table only at the commit of the request it
\* belongs to, that request being answered 200 in the same step.
C6_FailedInsertLeavesNoRow ==
    /\ [](\A t \in Threads :
            Answered(t) /\ FullPost(t) /\ resp[t].status # 200
                => /\ resp[t].status = 500
                   /\ resp[t].body # "Submitted successfully!"
                   /\ RowsOf(t) = {}
                   /\ session[t] = EmptySession)
    /\ [][ \A r \in table' \ table :
              \E t \in Threads :
                 /\ pc[t] = "commit"
                 /\ req[t].id = r.req
                 /\ resp'[t].status = 200 ]_vars

C6_Witness ==
    \E t, u \in Threads :
        /\ Answered(t) /\ FullPost(t)
        /\ resp[t].status = 500
        /\ resp[t].exc \in {"OperationalError", "DataError"}
        /\ Answered(u) /\ FullPost(u)
        /\ req[u].id > req[t].id
        /\ resp[u].status = 200
        /\ RowsOf(t) = {} /\ RowsOf(u) # {}

\* ---------------------------------------------------------------------- C7
\* C7: no step removes or changes a committed row or drops the table; a
\* step that changes the table is the commit of a POST / answered 200 and
\* adds exactly one row; GET / and GET /health add none.
C7_RowsImmutable ==
    [][ /\ table \subseteq table'
        /\ (tableExists => tableExists')
        /\ table' # table
              => /\ Cardinality(table' \ table) = 1
                 /\ \E t \in Threads :
                       /\ IsPost(t)
                       /\ pc[t] = "commit" /\ pc'[t] = "done"
                       /\ resp'[t].status = 200 ]_vars

C7_Witness ==
    /\ OldRow \in table
    /\ Cardinality(table) = 2
    /\ \E t \in Threads : Answered(t) /\ req[t].method = "GET"

C9_IdsUniqueMonotonic ==
    /\ \A r1, r2 \in table \cup InFlight : r1.id = r2.id => r1 = r2
    /\ \A t \in Threads :
          \A r \in table \cup InFlight :
             r.req = req[t].id /\ r.req # 0 => r.id > req[t].floor

C9_Witness ==
    \E t, u \in Threads :
        \E r1 \in RowsOf(t), r2 \in RowsOf(u) :
           /\ r1.req # 0 /\ r2.req # 0
           /\ req[u].floor >= r1.id
           /\ r2.id > r1.id

\* --------------------------------------------------------------------- C10
\* C10: while a request of POST / is between its add and its commit, the
\* session of its thread holds exactly the one object built from its own
\* name and email (pending, then inserted), and nothing of another
\* request; once answered 200 it has exactly one row, pairing its own name
\* and email; no request has two rows.
C10_OneInsertPerRequest ==
    /\ \A t \in Threads :
          pc[t] = "flush"
              => /\ Len(session[t].new) = 1
                 /\ session[t].new[1].req = req[t].id
                 /\ session[t].new[1].name = req[t].form["name"]
                 /\ session[t].new[1].email = req[t].form["email"]
                 /\ session[t].tx = {}
    /\ \A t \in Threads :
          pc[t] = "commit"
              => /\ session[t].new = << >>
                 /\ \E r \in session[t].tx :
                       /\ session[t].tx = {r}
                       /\ r.req = req[t].id
                       /\ r.name.text = req[t].form["name"].text
                       /\ r.email.text = req[t].form["email"].text
    /\ \A t \in Threads :
          pc[t] \in {"idle", "wait", "hook", "view", "done"}
              => session[t] = EmptySession
    /\ \A t \in Threads :
          Answered(t) /\ FullPost(t) /\ resp[t].status = 200
              => \E r \in table :
                    /\ RowsOf(t) = {r}
                    /\ r.name.text = req[t].form["name"].text
                    /\ r.email.text = req[t].form["email"].text
    /\ \A r1, r2 \in table : r1.req = r2.req /\ r1.req # 0 => r1 = r2

C10_Witness ==
    \E t, u \in Threads :
        /\ t # u
        /\ pc[t] = "commit" /\ pc[u] = "commit"
        /\ req[t].form["name"] # req[u].form["name"]
        /\ req[t].form["email"] # req[u].form["email"]

====
